---- MODULE Spec2Model ----
(***************************************************************************)
(* Model of the aircraft ingestion engine of adsb_rx: get_adsb_data.py     *)
(* (process_aircraft_data, cleanup_old_aircraft, get_last_location,        *)
(* print_db_contents) over the SQLite schema of dbmigration.py.            *)
(*                                                                         *)
(* Values.  A Python str is a tuple of one-character strings ("SWR " is    *)
(* <<"S","W","R"," ">>), so that str.strip() is computed and not assumed.  *)
(* Python None / SQL NULL is the tuple <<"None">>, which is no str because *)
(* its element is not one character.  Timestamps and row ids are integers. *)
(*                                                                         *)
(* Storage.  db is the committed content of adsb.db; conn is what the open *)
(* connection of the operation in progress sees (its uncommitted           *)
(* transaction).  sqlite3 opens the transaction implicitly at the first    *)
(* INSERT/DELETE; commit() publishes conn to db, rollback() and close()    *)
(* drop it.                                                                *)
(*                                                                         *)
(* The FOREIGN KEY of the history tables (enforced, PRAGMA foreign_keys)   *)
(* rejects an INSERT of a history row without its state row and a DELETE   *)
(* of a state row that history rows still reference.  Both transactions    *)
(* write the parent first and delete the children first, so the constraint *)
(* rejects no statement they issue (ForeignKeySatisfied below holds of     *)
(* every state); it is therefore not a source of sqlite3.Error here.       *)
(***************************************************************************)
EXTENDS Integers, Sequences, FiniteSets, TLC

\* ---------------------------------------------------------------- bounds
\* clock readings are 1..MaxTime
MaxTime == 2
\* cap on the history rows ever inserted (the sum of the AUTOINCREMENT
\* counters of the history tables)
MaxSeq == 2
\* records of one aircraft_list
MaxBatch == 2

Times == 1..MaxTime

\* ---------------------------------------------------------------- values
None == <<"None">>
N_A == <<"N", "/", "A">>

\* faulty variant: only None is falsy
Truthy_NotNone(v) == v # None

\* Python truthiness of a str-or-None value: None and "" are falsy
Truthy(v) == v # None /\ v # <<>>

IsSpace(c) == c = " "

RECURSIVE lstrip(_)
lstrip(s) == IF s # <<>> /\ IsSpace(Head(s)) THEN lstrip(Tail(s)) ELSE s

RECURSIVE rstrip(_)
rstrip(s) ==
    IF s # <<>> /\ IsSpace(s[Len(s)]) THEN rstrip(SubSeq(s, 1, Len(s) - 1)) ELSE s

\* str.strip(): leading and trailing whitespace removed
strip(s) == rstrip(lstrip(s))

\* ---------------------------------------------------------------- schema
\* dbmigration.create_database: the two table pairs
AcTables == {"aircraft", "aircraft_military"}
PosTables == {"positions", "positions_military"}

\* config['endpoints'][query]['tables'] of the two feeds: (state, history)
Endpoints == {"civil", "military"}
tables(query) ==
    IF query = "civil" THEN <<"aircraft", "positions">>
    ELSE <<"aircraft_military", "positions_military">>

\* columns declared NOT NULL that a feed value reaches: aircraft.squawk.
\* aircraft_military.squawk is added by add_column as a nullable TEXT column.
NotNullSquawk(ac_table) == ac_table = "aircraft"

EmptyDb ==
    [ac |-> [t \in AcTables |-> {}],
     pos |-> [t \in PosTables |-> {}],
     sqlite_sequence |-> [t \in PosTables |-> 0]]

\* ---------------------------------------------------------------- feed
\* One element of aircraft_list: a dict with any of the keys present.
Icaos == {<<"a">>, <<"b">>}
HexIn == Icaos \cup {<<>>, None}
FlightIn == {<<"S", " ">>, <<"S">>}
SquawkIn == {None}
LatIn == {<<"4">>}

Dict(keys, h, f, s, l) ==
    [k \in keys |->
        CASE k = "hex" -> h
          [] k = "flight" -> f
          [] k = "squawk" -> s
          [] OTHER -> l]

KeySets == {{"hex", "flight", "squawk", "lat"}, {"hex", "flight"}, {"hex"}, {}}

Sightings ==
    {Dict(ks, h, f, s, l) : ks \in KeySets, h \in HexIn, f \in FlightIn,
                            s \in SquawkIn, l \in LatIn}

\* the values timeout_seconds takes
Timeouts == {0, 1}

\* dict.get(key, default)
Get(d, key, default) == IF key \in DOMAIN d THEN d[key] ELSE default

\* ---------------------------------------------------------------- statements
\* faulty variant: no ON CONFLICT clause takes effect, a second row is inserted
UpsertAircraft_Insert(rows, icao, flight, timestamp, squawk) ==
    rows \cup {[icao24 |-> icao, flight |-> flight, first_seen |-> timestamp,
                last_seen |-> timestamp, squawk |-> squawk]}

\* faulty variant: INSERT OR REPLACE, the row is rewritten whole
UpsertAircraft_Replace(rows, icao, flight, timestamp, squawk) ==
    {r \in rows : r.icao24 # icao}
        \cup {[icao24 |-> icao, flight |-> flight, first_seen |-> timestamp,
                last_seen |-> timestamp, squawk |-> squawk]}

\* INSERT INTO {ac_table} ... ON CONFLICT(icao24) DO UPDATE SET flight, squawk,
\* last_seen: the row of that icao24 is updated in place (first_seen is not in
\* the SET list), or a row with first_seen = last_seen is inserted
UpsertAircraft(rows, icao, flight, timestamp, squawk) ==
    IF \E r \in rows : r.icao24 = icao
    THEN {IF r.icao24 = icao
          THEN [r EXCEPT !.flight = flight, !.squawk = squawk,
                         !.last_seen = timestamp]
          ELSE r : r \in rows}
    ELSE rows \cup {[icao24 |-> icao, flight |-> flight, first_seen |-> timestamp,
                     last_seen |-> timestamp, squawk |-> squawk]}

\* the value bound to flight: aircraft.get('flight', 'N/A'), stripped if truthy
FlightOf(aircraft) ==
    LET flight == Get(aircraft, "flight", N_A)
    IN  IF Truthy(flight) THEN strip(flight) ELSE flight

SquawkOf(aircraft) == Get(aircraft, "squawk", N_A)

IcaoOf(aircraft) == Get(aircraft, "hex", None)

\* first statement of the loop body, on the connection's view of the database
ExecUpsert(c, ac_table, aircraft, timestamp) ==
    [c EXCEPT !.ac[ac_table] =
        UpsertAircraft(@, IcaoOf(aircraft), FlightOf(aircraft), timestamp,
                       SquawkOf(aircraft))]

\* sqlite3.IntegrityError: NOT NULL constraint failed: aircraft.squawk
UpsertFails(ac_table, aircraft) ==
    NotNullSquawk(ac_table) /\ SquawkOf(aircraft) = None

\* INSERT INTO {pos_table}: always a new row, id from the AUTOINCREMENT counter
\* faulty variant: id without AUTOINCREMENT, one more than the largest id in
\* the table
ExecInsertPosition_MaxId(c, pos_table, aircraft, timestamp) ==
    LET ids == {r.id : r \in c.pos[pos_table]}
        id == IF ids = {} THEN 1
              ELSE (CHOOSE i \in ids : \A j \in ids : j <= i) + 1
    IN  [c EXCEPT !.pos[pos_table] =
                      @ \cup {[id |-> id, icao24 |-> IcaoOf(aircraft),
                               timestamp |-> timestamp,
                               lat |-> Get(aircraft, "lat", None)]},
                  !.sqlite_sequence[pos_table] = id]

ExecInsertPosition(c, pos_table, aircraft, timestamp) ==
    LET id == c.sqlite_sequence[pos_table] + 1
    IN  [c EXCEPT !.pos[pos_table] =
                      @ \cup {[id |-> id, icao24 |-> IcaoOf(aircraft),
                               timestamp |-> timestamp,
                               lat |-> Get(aircraft, "lat", None)]},
                  !.sqlite_sequence[pos_table] = id]

\* faulty variant: the except branch commits what was written so far
rollback_Keep(committed, working) == working

\* connection.rollback() / close() without commit: the transaction is dropped
rollback(committed, working) == committed

\* connection.commit()
commit(committed, working) == working

\* ---------------------------------------------------------------- queries
\* faulty variant: WHERE last_seen <= ?
SelectStale_Inclusive(rows, cleanup_timestamp) ==
    {r.icao24 : r \in {q \in rows : q.last_seen <= cleanup_timestamp}}

\* SELECT icao24 FROM {ac_table} WHERE last_seen < ?
\* faulty variant: staleness measured from first_seen
SelectStale_FirstSeen(rows, cleanup_timestamp) ==
    {r.icao24 : r \in {x \in rows : x.first_seen < cleanup_timestamp}}

SelectStale(rows, cleanup_timestamp) ==
    {r.icao24 : r \in {q \in rows : q.last_seen < cleanup_timestamp}}

\* DELETE FROM {table} WHERE icao24 IN (stale_aircraft_ids)
DeleteIn(rows, stale_aircraft_ids) ==
    {r \in rows : r.icao24 \notin stale_aircraft_ids}

\* faulty variant: the DELETE names the positions table literally
ExecDeletePositions_Literal(c, pos_table, stale_aircraft_ids) ==
    [c EXCEPT !.pos["positions"] = DeleteIn(@, stale_aircraft_ids)]

ExecDeletePositions(c, pos_table, stale_aircraft_ids) ==
    [c EXCEPT !.pos[pos_table] = DeleteIn(@, stale_aircraft_ids)]

ExecDeleteAircraft(c, ac_table, stale_aircraft_ids) ==
    [c EXCEPT !.ac[ac_table] = DeleteIn(@, stale_aircraft_ids)]

\* ... ORDER BY id: the rows as a list, ascending id
RECURSIVE OrderById(_)
OrderById(rows) ==
    IF rows = {} THEN <<>>
    ELSE LET r == CHOOSE r \in rows : \A q \in rows : r.id <= q.id
         IN  <<r>> \o OrderById(rows \ {r})

\* list.sort(key=timestamp, reverse=True) is stable: x goes behind every
\* element whose timestamp is >= its own
InsertSorted(sorted, x) ==
    LET k == Cardinality({i \in 1..Len(sorted) : sorted[i].timestamp >= x.timestamp})
    IN  SubSeq(sorted, 1, k) \o <<x>> \o SubSeq(sorted, k + 1, Len(sorted))

RECURSIVE SortByTimestampReverse(_, _)
SortByTimestampReverse(sorted, rest) ==
    IF rest = <<>> THEN sorted
    ELSE SortByTimestampReverse(InsertSorted(sorted, Head(rest)), Tail(rest))

\* the table get_last_location reads: the literal name in its SELECT
LocationTable == "positions"

\* get_last_location returns None
NotFound == [none |-> TRUE]

\* faulty variant: the SELECT has no WHERE clause
get_last_location_AnyIcao(d, icao) ==
    LET loc_rows == OrderById(d.pos[LocationTable])
        locations == SortByTimestampReverse(<<>>, loc_rows)
    IN  IF locations # <<>> THEN locations[1] ELSE NotFound

\* get_last_location(icao): rows of that icao24 ordered by id, sorted by
\* timestamp descending, the first one or None
get_last_location(d, icao) ==
    LET loc_rows == OrderById({r \in d.pos[LocationTable] : r.icao24 = icao})
        locations == SortByTimestampReverse(<<>>, loc_rows)
    IN  IF locations # <<>> THEN locations[1] ELSE NotFound

\* ---------------------------------------------------------------- state
VARIABLES
    db,      \* committed content of adsb.db
    conn,    \* the open connection's view (db when no transaction is open)
    pc,      \* position of the single thread of control
    frame,   \* locals of the function in progress; at pc = "returned", what
             \* the function hands to its caller
    main     \* position of a run of main(), NoRun when the functions are
             \* called on their own

vars == <<db, conn, pc, frame, main>>

NoFrame == [fn |-> "none"]
NoRun == [at |-> "none"]

Init ==
    /\ db = EmptyDb
    /\ conn = EmptyDb
    /\ pc = "idle"
    /\ frame = NoFrame
    /\ main = NoRun

\* rows ever inserted into the history tables
Inserted(c) == c.sqlite_sequence["positions"] + c.sqlite_sequence["positions_military"]

\* FOREIGN KEY (icao24) REFERENCES {ac_table} (icao24), checked after every
\* statement of the open connection: each history row has its state row
ForeignKeySatisfied ==
    \A query \in Endpoints :
        \A r \in conn.pos[tables(query)[2]] :
            \E q \in conn.ac[tables(query)[1]] : q.icao24 = r.icao24

\* ------------------------------------------------- process_aircraft_data
\* what the caller gets: the function returns None on both paths and lets no
\* sqlite3.Error out; error records the exception caught inside and at the
\* place it was raised (both go to stdout only)
ProcessResult(error, at, stdout) ==
    [fn |-> "process_aircraft_data", returned |-> None, raised |-> "none",
     error |-> error, at |-> at, stdout |-> stdout]

\* lines 51-58: connect, cursor, current_timestamp read from the wall clock.
\* n counts the records iterated so far, seen lists the icao of those upserted.
ProcessCall(ac_table, pos_table, clock) ==
    /\ pc = "idle"
    /\ \E now \in clock :
          frame' = [fn |-> "process_aircraft_data",
                    ac_table |-> ac_table,
                    pos_table |-> pos_table,
                    current_timestamp |-> now,
                    n |-> 0,
                    seen |-> <<>>]
    /\ conn' = db
    /\ pc' = "loop"
    /\ UNCHANGED db

ProcessBegin ==
    /\ \E query \in Endpoints :
          ProcessCall(tables(query)[1], tables(query)[2], Times)
    /\ UNCHANGED main

\* lines 60-63: a record without a truthy hex is skipped
ProcessSkipFrom(feed) ==
    /\ pc = "loop"
    /\ frame.n < MaxBatch
    /\ \E aircraft \in feed :
          /\ ~Truthy(IcaoOf(aircraft))
          /\ frame' = [frame EXCEPT !.n = @ + 1]
    /\ UNCHANGED <<db, conn, pc, main>>

ProcessSkip == ProcessSkipFrom(Sightings)

\* the except branch of lines 95-101: message, rollback, close, return None
ProcessFailed ==
    /\ conn' = rollback(db, conn)
    /\ db' = rollback(db, conn)
    /\ pc' = "returned"
    /\ frame' = ProcessResult("sqlite3.Error", pc, "Database error")
    /\ UNCHANGED main

\* lines 65-77: flight and squawk are read and the state row is upserted
ProcessUpsertFrom(feed) ==
    /\ pc = "loop"
    /\ frame.n < MaxBatch
    /\ Inserted(conn) < MaxSeq
    /\ \E aircraft \in feed :
          /\ Truthy(IcaoOf(aircraft))
          /\ IF UpsertFails(frame.ac_table, aircraft)
             THEN ProcessFailed
             ELSE /\ conn' = ExecUpsert(conn, frame.ac_table, aircraft,
                                        frame.current_timestamp)
                  /\ frame' = [fn |-> frame.fn, ac_table |-> frame.ac_table,
                               pos_table |-> frame.pos_table,
                               current_timestamp |-> frame.current_timestamp,
                               n |-> frame.n + 1,
                               seen |-> Append(frame.seen, IcaoOf(aircraft)),
                               aircraft |-> aircraft]
                  /\ pc' = "insert"
                  /\ UNCHANGED <<db, main>>

ProcessUpsert == ProcessUpsertFrom(Sightings)

\* lines 79-90: the history row of the same record is appended
ProcessInsert ==
    /\ pc = "insert"
    /\ conn' = ExecInsertPosition(conn, frame.pos_table, frame.aircraft,
                                  frame.current_timestamp)
    /\ frame' = [fn |-> frame.fn, ac_table |-> frame.ac_table,
                 pos_table |-> frame.pos_table,
                 current_timestamp |-> frame.current_timestamp,
                 n |-> frame.n,
                 seen |-> frame.seen]
    /\ pc' = "loop"
    /\ UNCHANGED <<db, main>>

\* lines 92-93: the list is exhausted, the batch is committed
ProcessCommit ==
    /\ pc = "loop"
    /\ db' = commit(db, conn)
    /\ conn' = commit(db, conn)
    /\ pc' = "returned"
    /\ frame' = ProcessResult("none", "none", "Successfully processed")
    /\ UNCHANGED main

\* a statement or the commit raises sqlite3.Error (disk I/O error, database is
\* locked, ...): lines 95-101
ProcessError ==
    /\ pc \in {"loop", "insert"}
    /\ ProcessFailed

\* ------------------------------------------------- cleanup_old_aircraft
CleanupResult(error, at, stdout) ==
    [fn |-> "cleanup_old_aircraft", returned |-> None, raised |-> "none",
     error |-> error, at |-> at, stdout |-> stdout]

\* lines 108-114: connect, cursor, the wall clock is read (now) and
\* cleanup_timestamp computed
CleanupCall(ac_table, pos_table, clock, timeouts) ==
    /\ pc = "idle"
    /\ \E now \in clock, timeout_seconds \in timeouts :
          frame' = [fn |-> "cleanup_old_aircraft",
                    ac_table |-> ac_table,
                    pos_table |-> pos_table,
                    now |-> now,
                    timeout_seconds |-> timeout_seconds,
                    cleanup_timestamp |-> now - timeout_seconds,
                    stale_aircraft_ids |-> {}]
    /\ conn' = db
    /\ pc' = "select"
    /\ UNCHANGED db

CleanupBegin ==
    /\ \E query \in Endpoints :
          CleanupCall(tables(query)[1], tables(query)[2], Times, Timeouts)
    /\ UNCHANGED main

\* lines 116-123: the stale ids are selected; with none selected the function
\* returns without a commit
CleanupSelect ==
    /\ pc = "select"
    /\ LET stale_aircraft_ids ==
               SelectStale(conn.ac[frame.ac_table], frame.cleanup_timestamp)
       IN  IF stale_aircraft_ids = {}
           THEN /\ pc' = "returned"
                /\ frame' = CleanupResult("none", "none", "No aircraft found")
           ELSE /\ pc' = "delete_positions"
                /\ frame' = [frame EXCEPT !.stale_aircraft_ids = stale_aircraft_ids]
    /\ UNCHANGED <<db, conn, main>>

\* line 126
\* faulty variant: the first DELETE is the one on the state table
CleanupDeletePositions_StateFirst ==
    /\ pc = "delete_positions"
    /\ conn' = ExecDeleteAircraft(conn, frame.ac_table, frame.stale_aircraft_ids)
    /\ pc' = "delete_aircraft"
    /\ UNCHANGED <<db, frame, main>>

CleanupDeletePositions ==
    /\ pc = "delete_positions"
    /\ conn' = ExecDeletePositions(conn, frame.pos_table, frame.stale_aircraft_ids)
    /\ pc' = "delete_aircraft"
    /\ UNCHANGED <<db, frame, main>>

\* line 129
CleanupDeleteAircraft ==
    /\ pc = "delete_aircraft"
    /\ conn' = ExecDeleteAircraft(conn, frame.ac_table, frame.stale_aircraft_ids)
    /\ pc' = "cleanup_commit"
    /\ UNCHANGED <<db, frame, main>>

\* lines 132-133
CleanupCommit ==
    /\ pc = "cleanup_commit"
    /\ db' = commit(db, conn)
    /\ conn' = commit(db, conn)
    /\ pc' = "returned"
    /\ frame' = CleanupResult("none", "none", "Removed")
    /\ UNCHANGED main

\* one of the two DELETEs or the commit raises sqlite3.Error: lines 135-141
CleanupError ==
    /\ pc \in {"delete_positions", "delete_aircraft", "cleanup_commit"}
    /\ conn' = rollback(db, conn)
    /\ db' = rollback(db, conn)
    /\ pc' = "returned"
    /\ frame' = CleanupResult("sqlite3.Error", pc, "Database error during cleanup")
    /\ UNCHANGED main

\* ------------------------------------------------- print_db_contents
\* format(None, '<11') raises TypeError: a row with a NULL flight or squawk
\* ends the listing at line 190, after its location was looked up at line 189
FormatRaises(row) == row.flight = None \/ row.squawk = None

\* lines 178-192: the rows of {ac_table} are listed in table order, each with
\* get_last_location(row['icao24']).  The model keeps no row order: the rows
\* listed are those before the first row whose formatting raises, and that row,
\* for some order of the table.
\* pos_table is no argument of print_db_contents: it names the history table
\* of the dataset that ac_table belongs to
PrintCall(ac_table, pos_table) ==
    /\ pc = "idle"
    /\ LET rows == db.ac[ac_table]
       IN  \E before \in SUBSET {r \in rows : ~FormatRaises(r)} :
           \E last \in {r \in rows \ before : FormatRaises(r)} \cup {NotFound} :
              /\ last = NotFound => before = rows
              /\ LET listed == before \cup ({last} \ {NotFound})
                 IN  frame' = [fn |-> "print_db_contents",
                               ac_table |-> ac_table,
                               pos_table |-> pos_table,
                               loc |-> [icao \in {r.icao24 : r \in listed} |->
                                           get_last_location(db, icao)],
                               returned |-> None,
                               raised |-> IF last = NotFound THEN "none"
                                          ELSE "TypeError"]
    /\ pc' = "returned"
    /\ UNCHANGED <<db, conn>>

PrintDbContents ==
    /\ \E query \in Endpoints : PrintCall(tables(query)[1], tables(query)[2])
    /\ UNCHANGED main

\* get_last_location(icao) called on its own
LookupCall(icaos) ==
    /\ pc = "idle"
    /\ \E icao \in icaos :
          frame' = [fn |-> "get_last_location", icao |-> icao,
                    returned |-> get_last_location(db, icao), raised |-> "none"]
    /\ pc' = "returned"
    /\ UNCHANGED <<db, conn, main>>

LookupLocation == LookupCall(Icaos)

\* the caller goes on after the call
Return ==
    /\ pc = "returned"
    /\ main = NoRun
    /\ frame' = NoFrame
    /\ pc' = "idle"
    /\ UNCHANGED <<db, conn, main>>

Next ==
    \/ ProcessBegin
    \/ ProcessSkip
    \/ ProcessUpsert
    \/ ProcessInsert
    \/ ProcessCommit
    \/ ProcessError
    \/ CleanupBegin
    \/ CleanupSelect
    \/ CleanupDeletePositions
    \/ CleanupDeleteAircraft
    \/ CleanupCommit
    \/ CleanupError
    \/ PrintDbContents
    \/ LookupLocation
    \/ Return

Spec == Init /\ [][Next]_vars

\* ---------------------------------------------------------------- scenario
\* The same functions driven with the values of the sweep scenario: one
\* aircraft, 4b1801, sighted in batches at 1000 and 2000, and sweeps with the
\* default timeout at one second short of and one second past an hour after
\* either batch.

\* cleanup_old_aircraft(..., timeout_seconds=3600)
DefaultTimeout == 3600

ScenarioIcao == <<"4", "b", "1", "8", "0", "1">>

ScenarioSightings ==
    {Dict(ks, h, f, s, l) : ks \in KeySets, h \in {ScenarioIcao, <<>>},
                            f \in {<<"S">>}, s \in SquawkIn, l \in LatIn}

ScenarioBatchTimes == {1000, 2000}

ScenarioSweepTimes ==
    {t + DefaultTimeout + d : t \in ScenarioBatchTimes, d \in {-1, 1}}

ScenarioProcessBegin ==
    /\ \E query \in Endpoints :
          ProcessCall(tables(query)[1], tables(query)[2], ScenarioBatchTimes)
    /\ UNCHANGED main

ScenarioSkip == ProcessSkipFrom(ScenarioSightings)

ScenarioUpsert == ProcessUpsertFrom(ScenarioSightings)

ScenarioCleanupBegin ==
    /\ \E query \in Endpoints :
          CleanupCall(tables(query)[1], tables(query)[2], ScenarioSweepTimes,
                      {DefaultTimeout})
    /\ UNCHANGED main

ScenarioLookup == LookupCall({ScenarioIcao})

NextScenario ==
    \/ ScenarioProcessBegin
    \/ ScenarioSkip
    \/ ScenarioUpsert
    \/ ProcessInsert
    \/ ProcessCommit
    \/ ProcessError
    \/ ScenarioCleanupBegin
    \/ CleanupSelect
    \/ CleanupDeletePositions
    \/ CleanupDeleteAircraft
    \/ CleanupCommit
    \/ CleanupError
    \/ PrintDbContents
    \/ ScenarioLookup
    \/ Return

SpecScenario == Init /\ [][NextScenario]_vars

\* ---------------------------------------------------------------- main
\* One run of main() after the feeds are fetched: per endpoint of the
\* configuration, in key order, the tables are resolved, then
\* process_aircraft_data, cleanup_old_aircraft and, without --silent,
\* print_db_contents are called. The database outlives the run; the next run
\* starts when this one has ended.

\* config['endpoints'][query] with the first n of its table names
Entry(query, n) == [query |-> query, tables |-> SubSeq(tables(query), 1, n)]

\* config['endpoints'] as the list of its entries in key order
Configs ==
    {<<Entry("civil", 2), Entry("military", 2)>>,
     <<Entry("civil", 2), Entry("military", 1)>>,
     <<Entry("military", 0), Entry("civil", 2)>>}

\* clock readings of the runs: an early one and one more than the timeout later
MainClock == {1000, 1000 + DefaultTimeout + 1}

\* main.inserted: the history rows ever inserted when the run began;
\* main.calls: the calls of this run that have returned
MainStart ==
    /\ main = NoRun
    /\ pc = "idle"
    /\ \E config \in Configs, silent \in BOOLEAN :
          main' = [at |-> "resolve", config |-> config, silent |-> silent,
                   i |-> 1, raised |-> "none",
                   inserted |-> Inserted(db), calls |-> <<>>]
    /\ UNCHANGED <<db, conn, pc, frame>>

MainTables == main.config[main.i].tables

\* lines 215-219
MainResolve ==
    /\ main.at = "resolve"
    /\ main.i <= Len(main.config)
    /\ Len(MainTables) >= 2
    /\ main' = [main EXCEPT !.at = "process"]
    /\ UNCHANGED <<db, conn, pc, frame>>

\* lines 220-221: raise ValueError, which nothing catches
MainRaise ==
    /\ main.at = "resolve"
    /\ main.i <= Len(main.config)
    /\ Len(MainTables) < 2
    /\ main' = [main EXCEPT !.at = "exit", !.raised = "ValueError"]
    /\ UNCHANGED <<db, conn, pc, frame>>

\* line 215: the loop is exhausted
MainLoopEnd ==
    /\ main.at = "resolve"
    /\ main.i > Len(main.config)
    /\ main' = [main EXCEPT !.at = "exit"]
    /\ UNCHANGED <<db, conn, pc, frame>>

\* the process ends
MainExit ==
    /\ main.at = "exit"
    /\ main' = NoRun
    /\ UNCHANGED <<db, conn, pc, frame>>

\* line 225
MainProcess ==
    /\ main.at = "process"
    /\ ProcessCall(MainTables[1], MainTables[2], MainClock)
    /\ main' = [main EXCEPT !.at = "processing"]

Returned(at) ==
    /\ main.at = at
    /\ pc = "returned"
    /\ frame' = NoFrame
    /\ pc' = "idle"
    /\ UNCHANGED <<db, conn>>

Called == Append(main.calls, <<frame.fn, MainTables[1]>>)

MainProcessed ==
    /\ Returned("processing")
    /\ main' = [main EXCEPT !.at = "cleanup", !.calls = Called]

\* line 229
MainCleanup ==
    /\ main.at = "cleanup"
    /\ CleanupCall(MainTables[1], MainTables[2], MainClock, {DefaultTimeout})
    /\ main' = [main EXCEPT !.at = "cleaning"]

\* lines 231, 215: with --silent the loop takes the next endpoint
MainCleaned ==
    /\ Returned("cleaning")
    /\ main' = IF main.silent
               THEN [main EXCEPT !.at = "resolve", !.i = @ + 1, !.calls = Called]
               ELSE [main EXCEPT !.at = "print", !.calls = Called]

\* line 233
MainPrint ==
    /\ main.at = "print"
    /\ PrintCall(MainTables[1], MainTables[2])
    /\ main' = [main EXCEPT !.at = "printing"]

\* a TypeError of the formatting is caught nowhere and ends the run
MainPrinted ==
    /\ Returned("printing")
    /\ main' = IF frame.raised = "none"
               THEN [main EXCEPT !.at = "resolve", !.i = @ + 1, !.calls = Called]
               ELSE [main EXCEPT !.at = "exit", !.raised = frame.raised,
                                 !.calls = Called]

NextMain ==
    \/ MainStart
    \/ MainResolve
    \/ MainRaise
    \/ MainLoopEnd
    \/ MainExit
    \/ MainProcess
    \/ ProcessSkip
    \/ ProcessUpsert
    \/ ProcessInsert
    \/ ProcessCommit
    \/ ProcessError
    \/ MainProcessed
    \/ MainCleanup
    \/ CleanupSelect
    \/ CleanupDeletePositions
    \/ CleanupDeleteAircraft
    \/ CleanupCommit
    \/ CleanupError
    \/ MainCleaned
    \/ MainPrint
    \/ MainPrinted

SpecMain == Init /\ [][NextMain]_vars

\* ================================================================ claims
RowsOf(rows, icao) == {r \in rows : r.icao24 = icao}

Count(seq, x) == Cardinality({i \in 1..Len(seq) : seq[i] = x})

\* ---------------------------------------------------------------- C1
SweepCommits ==
    /\ pc = "cleanup_commit"
    /\ pc' = "returned"
    /\ frame'.error = "none"

CascadeStep ==
    SweepCommits =>
        \A r \in db.ac[frame.ac_table] :
            IF frame.now - r.last_seen > frame.timeout_seconds
            THEN /\ RowsOf(db'.ac[frame.ac_table], r.icao24) = {}
                 /\ RowsOf(db'.pos[frame.pos_table], r.icao24) = {}
            ELSE /\ RowsOf(db'.ac[frame.ac_table], r.icao24) = {r}
                 /\ RowsOf(db'.pos[frame.pos_table], r.icao24)
                        = RowsOf(db.pos[frame.pos_table], r.icao24)

\* C1: when a sweep(timeout, now) commits, every id whose state row had
\* now - last_seen > timeout has neither its state row nor any history row left
\* in the dataset, and every id with now - last_seen <= timeout keeps its state
\* row and all its history rows exactly as they were.
C1_CascadeCorrect == [][CascadeStep]_vars

\* a committed sweep of the civil dataset that removed one aircraft and its
\* history row and kept another aircraft with its history row
C1_Witness ==
    /\ pc = "returned"
    /\ frame.fn = "cleanup_old_aircraft"
    /\ frame.stdout = "Removed"
    /\ db.sqlite_sequence["positions"] = 2
    /\ Cardinality(db.ac["aircraft"]) = 1
    /\ Cardinality(db.pos["positions"]) = 1

\* ---------------------------------------------------------------- C2
\* an upsert batch into one dataset leaves the tables of the other alone
UpsertIsolatedStep ==
    (frame.fn = "process_aircraft_data" /\ pc \in {"loop", "insert"}) =>
        \A query \in Endpoints :
            tables(query)[1] # frame.ac_table =>
                /\ db'.ac[tables(query)[1]] = db.ac[tables(query)[1]]
                /\ db'.pos[tables(query)[2]] = db.pos[tables(query)[2]]
                /\ conn'.ac[tables(query)[1]] = conn.ac[tables(query)[1]]
                /\ conn'.pos[tables(query)[2]] = conn.pos[tables(query)[2]]

\* the location listed for an aircraft of a dataset is a history row of that
\* dataset
LookupIsolated ==
    (pc = "returned" /\ frame.fn = "print_db_contents") =>
        \A icao \in DOMAIN frame.loc :
            \/ frame.loc[icao] = NotFound
            \/ frame.loc[icao] \in db.pos[frame.pos_table]

\* C2: for two datasets with disjoint table pairs, an upsert into dataset A
\* never creates or modifies a state or history row of dataset B, and the last
\* position looked up for dataset B is never a row written by an upsert into A.
C2_Isolation == [][UpsertIsolatedStep /\ LookupIsolated']_vars

\* ---------------------------------------------------------------- C3
\* C3: last_position returns, among the history rows of the id, the row with the
\* maximum timestamp, and among rows sharing that timestamp the one with the
\* maximum seq.
C3_LastPositionMaxSeq ==
    (pc = "returned" /\ frame.fn = "get_last_location") =>
        LET rows == RowsOf(db.pos[LocationTable], frame.icao)
        IN  rows # {} =>
                /\ frame.returned \in rows
                /\ \A r \in rows :
                      \/ r.timestamp < frame.returned.timestamp
                      \/ /\ r.timestamp = frame.returned.timestamp
                         /\ r.id <= frame.returned.id

\* ---------------------------------------------------------------- C4
NoOrphans(d) ==
    \A query \in Endpoints :
        \A r \in d.pos[tables(query)[2]] :
            RowsOf(d.ac[tables(query)[1]], r.icao24) # {}

\* C4: in every committed state, after any sequence of committed or failed
\* upsert batches and sweeps, a failure between the two DELETEs of a sweep
\* included, every history row's aircraft has a state row in the same dataset.
C4_NoOrphanedHistory == NoOrphans(db)

\* a sweep that failed after its history DELETE and before its state DELETE
\* has returned, and the history rows of the dataset are still there
C4_Witness ==
    /\ pc = "returned"
    /\ frame.fn = "cleanup_old_aircraft"
    /\ frame.error = "sqlite3.Error"
    /\ frame.at = "delete_aircraft"
    /\ db.pos["positions_military"] # {}

\* ---------------------------------------------------------------- C5
InBatch == frame.fn = "process_aircraft_data" /\ pc \in {"loop", "insert"}

\* every write of the batch in progress is in the committed database of the
\* next state: per upserted icao a state row with last_seen = the batch
\* timestamp and one new history row per upsert, and nothing else changed
BatchVisible ==
    \A icao \in Icaos :
        LET k == Count(frame.seen, icao)
            before == RowsOf(db.pos[frame.pos_table], icao)
            after == RowsOf(db'.pos[frame.pos_table], icao)
        IN  /\ before \subseteq after
            /\ Cardinality(after \ before) = k
            /\ \A r \in after \ before : r.timestamp = frame.current_timestamp
            /\ IF k = 0
               THEN RowsOf(db'.ac[frame.ac_table], icao)
                        = RowsOf(db.ac[frame.ac_table], icao)
               ELSE \E r \in db'.ac[frame.ac_table] :
                        r.icao24 = icao /\ r.last_seen = frame.current_timestamp

BatchAtomicStep ==
    InBatch =>
        /\ pc' # "returned" => db' = db
        /\ (pc' = "returned" /\ frame'.error # "none") => db' = db
        /\ (pc' = "returned" /\ frame'.error = "none") => BatchVisible

\* C5: an upsert batch is atomic: while it runs nothing of it is committed, a
\* batch that ends in a storage error leaves the committed database as it was,
\* and a batch that ends in success has committed the state write and the
\* history write of every record with a non-blank id.
C5_BatchAtomic == [][BatchAtomicStep]_vars

\* a batch has failed between the state write and the history write of a record
C5_Witness ==
    /\ pc = "returned"
    /\ frame.fn = "process_aircraft_data"
    /\ frame.error = "sqlite3.Error"
    /\ frame.at = "insert"

\* ---------------------------------------------------------------- C6
\* C6: a storage error during an upsert batch is surfaced to the caller: the
\* call ends in an outcome (an exception, or a return value) that differs from
\* the outcome of a successful batch.
C6_ErrorSurfaced ==
    (pc = "returned" /\ frame.fn = "process_aircraft_data"
                     /\ frame.error # "none") =>
        \/ frame.raised # "none"
        \/ frame.returned # ProcessResult("none", "none", "").returned

\* ---------------------------------------------------------------- C7
UniqueIcao(d) ==
    \A t \in AcTables : \A r, q \in d.ac[t] : r.icao24 = q.icao24 => r = q

\* C7: a state table never holds two rows with one id, in the committed
\* database and inside a batch, and between two records of a batch the history
\* table holds one new row per upsert made so far, the same id upserted twice
\* with the same timestamp included.
C7_Idempotent ==
    /\ UniqueIcao(db)
    /\ UniqueIcao(conn)
    /\ (pc = "loop" /\ frame.fn = "process_aircraft_data") =>
          \A icao \in Icaos :
              Cardinality(RowsOf(conn.pos[frame.pos_table], icao))
                  = Cardinality(RowsOf(db.pos[frame.pos_table], icao))
                        + Count(frame.seen, icao)

\* one id upserted twice in one batch: one state row, two history rows
C7_Witness ==
    /\ pc = "loop"
    /\ frame.fn = "process_aircraft_data"
    /\ frame.seen = << <<"a">>, <<"a">> >>
    /\ Cardinality(RowsOf(conn.ac[frame.ac_table], <<"a">>)) = 1
    /\ Cardinality(RowsOf(conn.pos[frame.pos_table], <<"a">>)) = 2

\* ---------------------------------------------------------------- C8
AllSpaces(s) == \A i \in 1..Len(s) : s[i] = " "

\* g is f without its leading and trailing spaces
StrippedOf(f, g) ==
    /\ \E i, j \in 0..Len(f) :
          /\ i + j <= Len(f)
          /\ AllSpaces(SubSeq(f, 1, i))
          /\ AllSpaces(SubSeq(f, Len(f) - j + 1, Len(f)))
          /\ g = SubSeq(f, i + 1, Len(f) - j)
    /\ g # <<>> => (g[1] # " " /\ g[Len(g)] # " ")

\* a state row present before and after a step keeps its first_seen
FirstSeenFixedStep ==
    \A t \in AcTables : \A r \in db.ac[t] : \A q \in db'.ac[t] :
        r.icao24 = q.icao24 => q.first_seen = r.first_seen

\* a committed batch leaves last_seen of every id it upserted at its timestamp
LastSeenStep ==
    (InBatch /\ pc' = "returned" /\ frame'.error = "none") =>
        \A i \in 1..Len(frame.seen) :
            \A q \in RowsOf(db'.ac[frame.ac_table], frame.seen[i]) :
                /\ q.last_seen = frame.current_timestamp
                /\ RowsOf(db.ac[frame.ac_table], frame.seen[i]) = {}
                       => q.first_seen = frame.current_timestamp

\* the callsign of the record just upserted is stored stripped
FlightStored ==
    (pc = "insert" /\ Truthy(Get(frame.aircraft, "flight", N_A))) =>
        \A q \in RowsOf(conn.ac[frame.ac_table], IcaoOf(frame.aircraft)) :
            StrippedOf(Get(frame.aircraft, "flight", N_A), q.flight)

\* C8: from its creation to its removal by a sweep a state row keeps its
\* first_seen under any upserts, after every committed upsert of an id its
\* last_seen is the timestamp of that (most recent) sighting, and the callsign
\* is stored without surrounding whitespace.
C8_Monotonic == [][FirstSeenFixedStep /\ LastSeenStep /\ FlightStored']_vars

\* an aircraft upserted at 1 and again at 2, callsign stripped
C8_Witness ==
    \E r \in db.ac["aircraft"] :
        r.first_seen = 1 /\ r.last_seen = 2 /\ r.flight = <<"S">>

\* ---------------------------------------------------------------- C9
\* C9: last_seen of a state row never decreases from one committed state to
\* the next, whatever the batch timestamps.
C9_LastSeenNonDecreasing ==
    [][\A t \in AcTables : \A r \in db.ac[t] : \A q \in db'.ac[t] :
          r.icao24 = q.icao24 => q.last_seen >= r.last_seen]_vars

\* ---------------------------------------------------------------- C10
\* C10: in every committed state every state row has first_seen <= last_seen.
C10_FirstSeenLeLastSeen ==
    \A t \in AcTables : \A r \in db.ac[t] : r.first_seen <= r.last_seen

\* ---------------------------------------------------------------- C11
\* a sweep that ends without a database error: at the SELECT that finds no
\* stale id, or at the commit of its deletions
SweepEnds ==
    /\ frame.fn = "cleanup_old_aircraft"
    /\ pc \in {"select", "cleanup_commit"}
    /\ pc' = "returned"
    /\ frame'.error = "none"

\* the dataset being swept holds 4b1801 as upserted at 1000 and again at 2000
UpsertedTwice ==
    /\ \E r \in db.ac[frame.ac_table] :
          /\ r.icao24 = ScenarioIcao
          /\ r.first_seen = 1000
          /\ r.last_seen = 2000
    /\ Cardinality(RowsOf(db.pos[frame.pos_table], ScenarioIcao)) = 2

ScenarioRemoved ==
    /\ RowsOf(db'.ac[frame.ac_table], ScenarioIcao) = {}
    /\ RowsOf(db'.pos[frame.pos_table], ScenarioIcao) = {}

\* C11 as stated: after 4b1801 was upserted at 1000 and at 2000, the sweep
\* with timeout 3600 at now = 1000 + 3601 removes its state row and both
\* history rows, and the sweep at now = 1000 + 3599 removes nothing.
C11_SweepScenario_Stated ==
    [][(SweepEnds /\ UpsertedTwice /\ frame.timeout_seconds = DefaultTimeout) =>
          /\ frame.now = 1000 + DefaultTimeout + 1 => ScenarioRemoved
          /\ frame.now = 1000 + DefaultTimeout - 1 => db' = db]_vars

\* C11 amended: after 4b1801 was upserted at 1000 and at 2000 its last_seen
\* is 2000; the sweep with timeout 3600 at now = 2000 + 3601 removes its
\* state row and both history rows, and the sweeps at now = 2000 + 3599,
\* 1000 + 3601 and 1000 + 3599 remove nothing.
C11_SweepScenario ==
    [][(SweepEnds /\ UpsertedTwice /\ frame.timeout_seconds = DefaultTimeout) =>
          /\ frame.now = 2000 + DefaultTimeout + 1 => ScenarioRemoved
          /\ frame.now \in {2000 + DefaultTimeout - 1,
                            1000 + DefaultTimeout + 1,
                            1000 + DefaultTimeout - 1} => db' = db]_vars

\* the sweep at 2000 + 3601 has deleted the state row and both history rows
\* of 4b1801 and is about to commit
C11_Witness ==
    /\ pc = "cleanup_commit"
    /\ UpsertedTwice
    /\ frame.now = 2000 + DefaultTimeout + 1
    /\ frame.timeout_seconds = DefaultTimeout
    /\ RowsOf(conn.ac[frame.ac_table], ScenarioIcao) = {}
    /\ RowsOf(conn.pos[frame.pos_table], ScenarioIcao) = {}

\* ---------------------------------------------------------------- C12
\* an absent id (the key 'hex' missing, or null) or an empty one
Blank(icao) == icao = None \/ icao = <<>>

NoBlankRow(d) ==
    /\ \A t \in AcTables : \A r \in d.ac[t] : ~Blank(r.icao24)
    /\ \A t \in PosTables : \A r \in d.pos[t] : ~Blank(r.icao24)

\* a record is passed over: the loop takes the next record without a statement
SkipStep == InBatch /\ pc = "loop" /\ pc' = "loop"

SkipHarmlessStep ==
    /\ SkipStep =>
          /\ conn' = conn
          /\ db' = db
          /\ frame'.n = frame.n + 1
          /\ frame'.seen = frame.seen
    /\ (InBatch /\ pc' = "insert") => ~Blank(IcaoOf(frame'.aircraft))
    /\ NoBlankRow(conn')
    /\ (InBatch /\ pc' = "returned" /\ frame'.error = "none"
                /\ frame.n > Len(frame.seen)) =>
          /\ db' = conn
          /\ BatchVisible

\* C12: a sighting with an absent or empty id is skipped without aborting the
\* batch: it changes no state row and adds no history row (no row with such
\* an id is ever written), the loop goes on with the next record, and a
\* batch that held such records commits the upserts and history rows of all
\* its other records, made before or after them.
C12_BlankSkipped == [][SkipHarmlessStep]_vars

\* a batch of two records, one without an id, one upserted and appended, is
\* about to commit
C12_Witness ==
    /\ InBatch
    /\ pc = "loop"
    /\ frame.n = 2
    /\ Len(frame.seen) = 1
    /\ RowsOf(conn.ac[frame.ac_table], frame.seen[1]) # {}
    /\ RowsOf(conn.pos[frame.pos_table], frame.seen[1])
           # RowsOf(db.pos[frame.pos_table], frame.seen[1])

\* ---------------------------------------------------------------- C13
\* C13: dataset routing fails fast: when main ends in the error of a dataset
\* configured with fewer than two table names, no state or history row has
\* been written in that run, for the misconfigured dataset or, earlier in the
\* run, for any other dataset.
C13_FailFast ==
    (main.at = "exit" /\ main.raised = "ValueError") =>
        Inserted(db) = main.inserted

\* ---------------------------------------------------------------- C14
\* what a lookup of icao that read the history table pos_table has returned
LookupSound(pos_table, icao, returned) ==
    /\ RowsOf(db.pos[pos_table], icao) = {} => returned = NotFound
    /\ returned # NotFound => returned.icao24 = icao

RemovedBySweep(icao) ==
    /\ RowsOf(db'.ac[frame.ac_table], icao) = {}
    /\ RowsOf(db'.pos[frame.pos_table], icao) = {}

KeptBySweep(icao) ==
    /\ RowsOf(db'.ac[frame.ac_table], icao) = RowsOf(db.ac[frame.ac_table], icao)
    /\ RowsOf(db'.pos[frame.pos_table], icao)
           = RowsOf(db.pos[frame.pos_table], icao)

\* C15 as stated: with timeout_seconds = 0 an aircraft is stale immediately
\* after insertion: the sweep with timeout 0 at the same now as the batch
\* timestamp that inserted or last updated it removes the aircraft and its
\* history rows.
C15_ZeroTimeout_Stated ==
    [][(SweepEnds /\ frame.timeout_seconds = 0) =>
          \A r \in db.ac[frame.ac_table] :
              r.last_seen = frame.now => RemovedBySweep(r.icao24)]_vars

\* C15 amended: with timeout_seconds = 0 an aircraft is stale as soon as now
\* is greater than its last_seen: the sweep with timeout 0 at a now after
\* the batch timestamp that inserted or last updated it removes the aircraft
\* and its history rows, the sweep at the same now (or an earlier one) leaves
\* them as they are.
C15_ZeroTimeout ==
    [][(SweepEnds /\ frame.timeout_seconds = 0) =>
          \A r \in db.ac[frame.ac_table] :
              /\ r.last_seen < frame.now => RemovedBySweep(r.icao24)
              /\ r.last_seen >= frame.now => KeptBySweep(r.icao24)]_vars

\* a sweep with timeout 0 is about to commit: it has deleted an aircraft seen
\* before now and has kept one whose last_seen is now
C15_Witness ==
    /\ pc = "cleanup_commit"
    /\ frame.timeout_seconds = 0
    /\ \E r \in db.ac[frame.ac_table] :
          /\ r.last_seen < frame.now
          /\ RowsOf(conn.ac[frame.ac_table], r.icao24) = {}
    /\ \E r \in conn.ac[frame.ac_table] : r.last_seen = frame.now

\* ---------------------------------------------------------------- C16
\* a state row of icao that is in d is no longer in e
StateRowDeleted(d, e, ac_table, icao) ==
    /\ RowsOf(d.ac[ac_table], icao) # {}
    /\ RowsOf(e.ac[ac_table], icao) = {}

\* the sweep is at one of its statements or at its commit
InSweep ==
    /\ frame.fn = "cleanup_old_aircraft"
    /\ pc \in {"select", "delete_positions", "delete_aircraft", "cleanup_commit"}

HistoryFirstStep ==
    /\ InSweep =>
          \A query \in Endpoints : \A icao \in {r.icao24 : r \in conn.ac[tables(query)[1]]} :
              StateRowDeleted(conn, conn', tables(query)[1], icao) =>
                  RowsOf(conn.pos[tables(query)[2]], icao) = {}
    /\ \A query \in Endpoints : \A icao \in {r.icao24 : r \in db.ac[tables(query)[1]]} :
          StateRowDeleted(db, db', tables(query)[1], icao) =>
              RowsOf(db'.pos[tables(query)[2]], icao) = {}
    /\ pc' = "delete_aircraft" =>
          \A icao \in frame'.stale_aircraft_ids :
              /\ RowsOf(conn'.pos[frame'.pos_table], icao) = {}
              /\ RowsOf(conn'.ac[frame'.ac_table], icao) # {}

\* C16: within a sweep the history rows are deleted before the state rows:
\* when the DELETE on the state table is reached the history rows of every
\* selected id are gone and its state row is still there; no statement of a
\* sweep deletes a state row while a history row of its id exists in the
\* dataset, and no step takes a state row out of the committed database and
\* leaves a history row of its id there.
C16_HistoryFirst == [][HistoryFirstStep]_vars

\* between the two DELETEs: the history rows of a selected id are deleted, its
\* state row is not yet
C16_Witness ==
    /\ pc = "delete_aircraft"
    /\ \E icao \in frame.stale_aircraft_ids :
          /\ RowsOf(db.pos[frame.pos_table], icao) # {}
          /\ RowsOf(conn.pos[frame.pos_table], icao) = {}
          /\ RowsOf(conn.ac[frame.ac_table], icao) # {}

\* ---------------------------------------------------------------- C17
\* the ids of a history table are pairwise distinct and none is above the
\* table's AUTOINCREMENT counter
SeqDistinct(d) ==
    \A t \in PosTables :
        /\ \A r, q \in d.pos[t] : r.id = q.id => r = q
        /\ \A r \in d.pos[t] : r.id <= d.sqlite_sequence[t]

\* the history write of a record: one new row, above every row of the table
\* and above every id the committed table ever held
AppendStep ==
    \E r \in conn'.pos[frame.pos_table] \ conn.pos[frame.pos_table] :
        /\ conn'.pos[frame.pos_table] = conn.pos[frame.pos_table] \cup {r}
        /\ r.icao24 = frame.seen[Len(frame.seen)]
        /\ r.timestamp = frame.current_timestamp
        /\ \A q \in conn.pos[frame.pos_table] : q.id < r.id
        /\ r.id > db.sqlite_sequence[frame.pos_table]

AppendOnlyStep ==
    /\ (InBatch /\ pc = "insert" /\ pc' = "loop") => AppendStep
    /\ (InBatch /\ pc' \in {"loop", "insert"}) =>
          \A t \in PosTables : conn.pos[t] \subseteq conn'.pos[t]
    /\ \A t \in PosTables :
          /\ db.pos[t] \subseteq db'.pos[t]
                \/ (InSweep /\ pc = "cleanup_commit")
          /\ \A r \in db'.pos[t] \ db.pos[t] : r.id > db.sqlite_sequence[t]
          /\ db'.sqlite_sequence[t] >= db.sqlite_sequence[t]
    /\ SeqDistinct(conn')
    /\ SeqDistinct(db')

\* C17: history is append-only with a strict order: the history write of
\* every processed sighting with a non-empty id adds exactly one row, no
\* step of a batch changes or removes a row that is there, only the commit of
\* a sweep takes rows out of the committed table, the ids of a table are
\* pairwise distinct, and a row inserted later has an id above that of every
\* row committed earlier, the rows a sweep has deleted since included.
C17_AppendOnly == [][AppendOnlyStep]_vars

\* a batch has appended a row after a sweep emptied the table: its id is one
\* above the id of the last deleted row
C17_Witness ==
    /\ InBatch
    /\ pc = "loop"
    /\ db.pos[frame.pos_table] = {}
    /\ db.sqlite_sequence[frame.pos_table] >= 1
    /\ \E r \in conn.pos[frame.pos_table] :
          r.id = db.sqlite_sequence[frame.pos_table] + 1

\* ---------------------------------------------------------------- C18
\* the sweep is called
SweepStarts == pc = "idle" /\ frame'.fn = "cleanup_old_aircraft"

\* ac_table and pos_table are the two tables of one dataset
OneDataset(ac_table, pos_table) ==
    \E query \in Endpoints : tables(query) = <<ac_table, pos_table>>

SweepAloneStep ==
    /\ SweepStarts =>
          /\ main.calls # <<>>
          /\ main.calls[Len(main.calls)]
                = <<"process_aircraft_data", frame'.ac_table>>
          /\ OneDataset(frame'.ac_table, frame'.pos_table)
          /\ conn' = db
    /\ InSweep =>
          /\ \A t \in AcTables \ {frame.ac_table} :
                conn'.ac[t] = conn.ac[t] /\ db'.ac[t] = db.ac[t]
          /\ \A t \in PosTables \ {frame.pos_table} :
                conn'.pos[t] = conn.pos[t] /\ db'.pos[t] = db.pos[t]
          /\ pc' # "returned" =>
                frame'.stale_aircraft_ids
                    \subseteq {r.icao24 : r \in db.ac[frame.ac_table]}

\* C18: a sweep never interleaves with an ingestion batch of its dataset: in
\* every run the sweep of a dataset is called only when the last call that
\* returned is the batch of that dataset, so that the batch has committed or
\* rolled back and the sweep starts from the committed database; and the
\* sweep selects ids from, and deletes rows in, the state and history table
\* of its own dataset only.
C18_SweepAlone == [][SweepAloneStep]_vars

\* in a run, after the batch of the dataset committed history rows, the sweep
\* of that dataset has selected stale ids and is about to delete
C18_Witness ==
    /\ main.at = "cleaning"
    /\ pc = "delete_positions"
    /\ Inserted(db) > main.inserted
    /\ main.calls[Len(main.calls)] = <<"process_aircraft_data", frame.ac_table>>

\* ---------------------------------------------------------------- C19
\* the row of rows with the lowest id, with the highest id
LowestSeq(rows) == CHOOSE r \in rows : \A q \in rows : r.id <= q.id

HighestSeq(rows) == CHOOSE r \in rows : \A q \in rows : q.id <= r.id

StateAgreesWithHistory(d, query) ==
    \A r \in d.ac[tables(query)[1]] :
        LET history == RowsOf(d.pos[tables(query)[2]], r.icao24)
        IN  /\ history # {}
            /\ r.last_seen = HighestSeq(history).timestamp
            /\ r.first_seen = LowestSeq(history).timestamp

\* C19: in every committed state every state row has at least one history
\* row in its dataset, its last_seen is the timestamp of the history row of
\* its id with the highest id and its first_seen the timestamp of the one with
\* the lowest id.
C19_StateHistoryAgree ==
    \A query \in Endpoints : StateAgreesWithHistory(db, query)

\* committed: an aircraft seen at two different clock readings with its two
\* history rows
C19_Witness ==
    /\ pc = "idle"
    /\ \E query \in Endpoints : \E r \in db.ac[tables(query)[1]] :
          /\ r.first_seen # r.last_seen
          /\ Cardinality(RowsOf(db.pos[tables(query)[2]], r.icao24)) = 2

\* ---------------------------------------------------------------- C20
\* the batch in progress ends in its commit
BatchCommits == InBatch /\ pc' = "returned" /\ frame'.error = "none"

\* icao has no state row in the dataset of the batch when the batch begins:
\* it was never seen there, or a sweep has removed it
NoStateRow(icao) == RowsOf(db.ac[frame.ac_table], icao) = {}

FreshRow(icao) ==
    /\ \E r \in db'.ac[frame.ac_table] :
          /\ r.icao24 = icao
          /\ r.first_seen = frame.current_timestamp
          /\ r.last_seen = frame.current_timestamp
    /\ RowsOf(db'.pos[frame.pos_table], icao) # {}
    /\ \A r \in RowsOf(db'.pos[frame.pos_table], icao) :
          /\ r.id > db.sqlite_sequence[frame.pos_table]
          /\ r.timestamp = frame.current_timestamp

\* C20: an id that a sweep has removed and that is sighted again at t gets a
\* fresh state row with first_seen = last_seen = t, nothing of the former row
\* is kept, and the history of that id holds only rows appended after the
\* sweep.
C20_Recreated ==
    [][BatchCommits =>
          \A i \in 1..Len(frame.seen) :
              NoStateRow(frame.seen[i]) => FreshRow(frame.seen[i])]_vars

\* 4b1801, the only aircraft of the feed, was sighted, swept and sighted
\* again: its first history row is gone, its state row is that of the second
\* sighting
C20_Witness ==
    /\ pc = "idle"
    /\ \E query \in Endpoints :
          /\ db.sqlite_sequence[tables(query)[2]] = 2
          /\ \E r \in db.ac[tables(query)[1]] :
                /\ r.icao24 = ScenarioIcao
                /\ r.first_seen = r.last_seen
                /\ RowsOf(db.pos[tables(query)[2]], ScenarioIcao)
                      = {[id |-> 2, icao24 |-> ScenarioIcao,
                          timestamp |-> r.last_seen, lat |-> None]}

====
